---- MODULE Spec2Model ----
(***************************************************************************)
(* The command-line contact manager of src/main.py: the validated fields   *)
(* (Phone, Birthday), Record, AddressBook with its birthday-window report, *)
(* and the command loop of main().                                         *)
(*                                                                         *)
(* A text is a sequence of characters.  A character is a one-character     *)
(* string; two characters outside ASCII are written by name: "SUP2" is     *)
(* SUPERSCRIPT TWO and "AR3" is ARABIC-INDIC DIGIT THREE, "TAB" is the     *)
(* tabulator.  A Python object is a record of its attributes; None is the  *)
(* record None.  A raised exception is a record of its class and of        *)
(* str(e); an operation that can raise returns its result beside `exc`.    *)
(* A dict is modelled as its mapping: iteration order is not represented,  *)
(* so a bucket of the birthday report is the set of the names in it.       *)
(***************************************************************************)
EXTENDS Integers, Sequences, FiniteSets, TLC

VARIABLES
    contacts,   \* book.contacts of main(): name -> Record
    status,     \* the process: "running", "exited" (break), "crashed" (uncaught)
    branch,     \* the branch of main()'s loop that handled the last line
    exc,        \* the exception raised while handling the last line, or NoExc
    out,        \* what the last command printed
    now,        \* what datetime.now() returned to the last command, or None
    rec,        \* a Record used directly through its methods
    recOp,      \* the last method called on rec, with its argument
    recExc      \* the exception that call raised, or NoExc

vars == <<contacts, status, branch, exc, out, now, rec, recOp, recExc>>

None == [none |-> TRUE]

NoExc == [type |-> "None", msg |-> ""]

Exc(type, msg) == [type |-> type, msg |-> msg]

\* ------------------------------------------------------------------ text

AsciiDigit == {"0", "1", "2", "3", "4", "5", "6", "7", "8", "9"}

\* A Unicode decimal digit (category Nd): what \d of a str pattern matches
\* and int() converts.
IsDecimalChar(c) == c \in AsciiDigit \cup {"AR3"}

\* str.isdigit() of one character: the decimal digits and the other
\* characters of Numeric_Type=Digit, such as the superscripts.
IsDigitChar(c) == IsDecimalChar(c) \/ c = "SUP2"

DigitVal(c) ==
    CASE c = "0" -> 0 [] c = "1" -> 1 [] c = "2" -> 2 [] c = "3" -> 3
      [] c = "4" -> 4 [] c = "5" -> 5 [] c = "6" -> 6 [] c = "7" -> 7
      [] c = "8" -> 8 [] c = "9" -> 9 [] c = "AR3" -> 3

\* str.isdigit(): every character is a digit and there is at least one.
isdigit(s) == Len(s) > 0 /\ \A i \in 1..Len(s) : IsDigitChar(s[i])

\* int(s) of a text of decimal digits.
RECURSIVE int(_)
int(s) ==
    IF s = <<>> THEN 0
    ELSE 10 * int(SubSeq(s, 1, Len(s) - 1)) + DigitVal(s[Len(s)])

Whitespace == {" ", "TAB"}

UpperCase ==
    <<"A", "B", "C", "D", "E", "F", "G", "H", "I", "J", "K", "L", "M",
      "N", "O", "P", "Q", "R", "S", "T", "U", "V", "W", "X", "Y", "Z">>

LowerCase ==
    <<"a", "b", "c", "d", "e", "f", "g", "h", "i", "j", "k", "l", "m",
      "n", "o", "p", "q", "r", "s", "t", "u", "v", "w", "x", "y", "z">>

LowerChar(c) ==
    IF \E k \in 1..Len(UpperCase) : UpperCase[k] = c
    THEN LowerCase[CHOOSE k \in 1..Len(UpperCase) : UpperCase[k] = c]
    ELSE c

\* str.lower()
lower(s) == [i \in 1..Len(s) |-> LowerChar(s[i])]

\* str.strip(): without the leading and the trailing whitespace.
RECURSIVE strip(_)
strip(s) ==
    IF s = <<>> THEN s
    ELSE IF Head(s) \in Whitespace THEN strip(Tail(s))
    ELSE IF s[Len(s)] \in Whitespace THEN strip(SubSeq(s, 1, Len(s) - 1))
    ELSE s

\* str.split() without arguments: the maximal runs of non-whitespace.
RECURSIVE SplitFrom(_, _, _, _)
SplitFrom(s, i, cur, acc) ==
    LET flushed == IF cur = <<>> THEN acc ELSE Append(acc, cur)
    IN  IF i > Len(s) THEN flushed
        ELSE IF s[i] \in Whitespace THEN SplitFrom(s, i + 1, <<>>, flushed)
        ELSE SplitFrom(s, i + 1, Append(cur, s[i]), acc)

split(s) == SplitFrom(s, 1, <<>>, <<>>)

\* sep.join(texts)
RECURSIVE join(_, _)
join(sep, texts) ==
    IF texts = <<>> THEN <<>>
    ELSE IF Len(texts) = 1 THEN texts[1]
    ELSE texts[1] \o sep \o join(sep, Tail(texts))

\* The index of the first c in s at or after i, 0 when there is none.
RECURSIVE Find(_, _, _)
Find(s, c, i) ==
    IF i > Len(s) THEN 0 ELSE IF s[i] = c THEN i ELSE Find(s, c, i + 1)

\* ------------------------------------------------------------ datetime
\* A datetime is [year, month, day, second]: second is the time of day in
\* seconds (the microseconds are left out: they only add to the time of
\* day).

is_leap(y) == y % 4 = 0 /\ (y % 100 # 0 \/ y % 400 = 0)

days_in_month(y, m) ==
    IF m = 2 THEN (IF is_leap(y) THEN 29 ELSE 28)
    ELSE IF m \in {4, 6, 9, 11} THEN 30 ELSE 31

days_before_year(y) ==
    LET p == y - 1 IN p * 365 + (p \div 4) - (p \div 100) + (p \div 400)

RECURSIVE days_before_month(_, _)
days_before_month(y, m) ==
    IF m = 1 THEN 0 ELSE days_before_month(y, m - 1) + days_in_month(y, m - 1)

\* date.toordinal(): 1 is 01.01.0001.
toordinal(d) ==
    days_before_year(d.year) + days_before_month(d.year, d.month) + d.day

\* date.weekday(): 0 is Monday.
weekday(d) == (toordinal(d) + 6) % 7

DayNames ==
    <<"Monday", "Tuesday", "Wednesday", "Thursday", "Friday", "Saturday",
      "Sunday">>

\* Whether year, month, day name a date the datetime constructor accepts.
ValidDate(y, m, d) ==
    /\ y \in 1..9999
    /\ m \in 1..12
    /\ d \in 1..days_in_month(y, m)

\* datetime.replace(year=y): raises when the day is not in that year.
replace_year(d, y) ==
    IF ValidDate(y, d.month, d.day)
    THEN [exc |-> NoExc, val |-> [d EXCEPT !.year = y]]
    ELSE [exc |-> Exc("ValueError", "day is out of range for month"),
          val |-> None]

\* (a - b).days: the difference floored to whole days.
days_between(a, b) ==
    ((toordinal(a) - toordinal(b)) * 86400 + (a.second - b.second)) \div 86400

NextDay(d) ==
    IF d.day < days_in_month(d.year, d.month) THEN [d EXCEPT !.day = @ + 1]
    ELSE IF d.month < 12 THEN [d EXCEPT !.day = 1, !.month = @ + 1]
    ELSE [d EXCEPT !.day = 1, !.month = 1, !.year = @ + 1]

\* d + timedelta(days=n), n >= 0
RECURSIVE plus_days(_, _)
plus_days(d, n) == IF n = 0 THEN d ELSE plus_days(NextDay(d), n - 1)

\* The day of '%d': 3[0-1] | [1-2]\d | 0[1-9] | [1-9] | space [1-9]
MatchDay(t) ==
    \/ Len(t) = 2 /\ t[1] = "3" /\ t[2] \in {"0", "1"}
    \/ Len(t) = 2 /\ t[1] \in {"1", "2"} /\ IsDecimalChar(t[2])
    \/ Len(t) = 2 /\ t[1] = "0" /\ t[2] \in AsciiDigit \ {"0"}
    \/ Len(t) = 1 /\ t[1] \in AsciiDigit \ {"0"}
    \/ Len(t) = 2 /\ t[1] = " " /\ t[2] \in AsciiDigit \ {"0"}

\* The month of '%m': 1[0-2] | 0[1-9] | [1-9]
MatchMonth(t) ==
    \/ Len(t) = 2 /\ t[1] = "1" /\ t[2] \in {"0", "1", "2"}
    \/ Len(t) = 2 /\ t[1] = "0" /\ t[2] \in AsciiDigit \ {"0"}
    \/ Len(t) = 1 /\ t[1] \in AsciiDigit \ {"0"}

\* The year of '%Y': \d\d\d\d
MatchYear(t) == Len(t) = 4 /\ \A i \in 1..4 : IsDecimalChar(t[i])

\* datetime.strptime(value, '%d.%m.%Y').  The pattern is day, ".", month,
\* ".", year matched from the start; no alternative of day or month holds
\* a ".", so the day is the text before the first "." and the month the
\* text between the first two; text left after the year is "unconverted
\* data".
strptime(value) ==
    LET p1 == Find(value, ".", 1)
        p2 == IF p1 = 0 THEN 0 ELSE Find(value, ".", p1 + 1)
        dd == SubSeq(value, 1, p1 - 1)
        mm == SubSeq(value, p1 + 1, p2 - 1)
        yy == SubSeq(value, p2 + 1, p2 + 4)
        sp == IF dd # <<>> /\ Head(dd) = " " THEN Tail(dd) ELSE dd
        nomatch == [exc |-> Exc("ValueError", "time data does not match format"),
                    val |-> None]
    IN  IF p1 = 0 \/ p2 = 0 THEN nomatch
        ELSE IF ~(MatchDay(dd) /\ MatchMonth(mm) /\ MatchYear(yy)) THEN nomatch
        ELSE IF Len(value) # p2 + 4
        THEN [exc |-> Exc("ValueError", "unconverted data remains"),
              val |-> None]
        ELSE IF ~ValidDate(int(yy), int(mm), int(sp))
        THEN [exc |-> Exc("ValueError", "day is out of range for month"),
              val |-> None]
        ELSE [exc |-> NoExc,
              val |-> [year |-> int(yy), month |-> int(mm), day |-> int(sp),
                       second |-> 0]]

\* input_date.strftime("%A")
get_day_of_week_from_date(input_date) == DayNames[weekday(input_date) + 1]

\* ------------------------------------------------------ the field types

\* Field.__init__ as Name inherits it: no validation at all.
Name(value) == [value |-> value]

\* Phone(value), the new object having identity oid.  It raises unless
\* value.isdigit() and len(value) == 10.
Phone(value, oid) ==
    IF ~isdigit(value) \/ Len(value) # 10
    THEN [exc |-> Exc("ValueError", "Invalid phone number format"), obj |-> None]
    ELSE [exc |-> NoExc, obj |-> [oid |-> oid, value |-> value]]

\* Birthday(value): whatever strptime raises becomes one ValueError; the
\* object keeps the text, not the parsed date.
Birthday(value) ==
    IF strptime(value).exc # NoExc
    THEN [exc |-> Exc("ValueError",
                      "Invalid date format for birthday. Please use DD.MM.YYYY."),
          obj |-> None]
    ELSE [exc |-> NoExc, obj |-> [value |-> value]]

\* a == b of two Field objects: Field defines no __eq__, so object's, which
\* is identity.
FieldEq(a, b) == a.oid = b.oid

\* An identity no Phone of the record has.
FreshOid(self) ==
    CHOOSE n \in 1..(Len(self.phones) + 1) :
        \A i \in 1..Len(self.phones) : self.phones[i].oid # n

\* bool(x) of an optional text argument: None and "" are false.
Truthy(x) == x # None /\ x # <<>>

\* list.remove(x): deletes the first item equal to x, raises when none is.
list_remove(list, x) ==
    IF \E i \in 1..Len(list) : FieldEq(list[i], x)
    THEN LET i == CHOOSE i \in 1..Len(list) :
                      /\ FieldEq(list[i], x)
                      /\ \A j \in 1..(i - 1) : ~FieldEq(list[j], x)
         IN  [exc |-> NoExc,
              list |-> SubSeq(list, 1, i - 1) \o SubSeq(list, i + 1, Len(list))]
    ELSE [exc |-> Exc("ValueError", "list.remove(x): x not in list"),
          list |-> list]

\* -------------------------------------------------------------- Record
\* A Record is [name, phones, birthday]; a method returns the record as it
\* leaves it beside the exception it raised.

add_phone(self, phone) ==
    LET p == Phone(phone, FreshOid(self))
    IN  IF p.exc # NoExc THEN [exc |-> p.exc, self |-> self]
        ELSE [exc |-> NoExc,
              self |-> [self EXCEPT !.phones = Append(@, p.obj)]]

remove_phone(self, phone) ==
    LET p == Phone(phone, FreshOid(self))
    IN  IF p.exc # NoExc THEN [exc |-> p.exc, self |-> self]
        ELSE LET r == list_remove(self.phones, p.obj)
             IN  [exc |-> r.exc, self |-> [self EXCEPT !.phones = r.list]]


\* add_birthday as it would be if it set the birthday whether or not the
\* record has one.
add_birthday_overwriting(self, birthday) ==
    LET b == Birthday(birthday)
    IN  IF b.exc # NoExc THEN [exc |-> b.exc, self |-> self]
        ELSE [exc |-> NoExc, self |-> [self EXCEPT !.birthday = b.obj]]

\* add_birthday as it would be if it validated the text before it looked
\* at the record.
add_birthday_validating_first(self, birthday) ==
    LET b == Birthday(birthday)
    IN  IF b.exc # NoExc THEN [exc |-> b.exc, self |-> self]
        ELSE IF self.birthday = None
        THEN [exc |-> NoExc, self |-> [self EXCEPT !.birthday = b.obj]]
        ELSE [exc |-> Exc("ValueError", "Contact can have only one birthday."),
              self |-> self]

\* add_birthday as it would be if it stored the text before it validated
\* it.
add_birthday_assigning_first(self, birthday) ==
    IF self.birthday = None
    THEN [exc |-> Birthday(birthday).exc,
          self |-> [self EXCEPT !.birthday = [value |-> birthday]]]
    ELSE [exc |-> Exc("ValueError", "Contact can have only one birthday."),
          self |-> self]

\* A Birthday object is always true (no __bool__, no __len__), so "not
\* self.birthday" is "self.birthday is None".
add_birthday(self, birthday) ==
    IF self.birthday = None
    THEN LET b == Birthday(birthday)
         IN  IF b.exc # NoExc THEN [exc |-> b.exc, self |-> self]
             ELSE [exc |-> NoExc, self |-> [self EXCEPT !.birthday = b.obj]]
    ELSE [exc |-> Exc("ValueError", "Contact can have only one birthday."),
          self |-> self]

\* Record(name, phone, birthday): Record.__init__
Record(name, phone, birthday) ==
    LET r0 == [name |-> Name(name), phones |-> <<>>, birthday |-> None]
        r1 == IF Truthy(phone) THEN add_phone(r0, phone)
              ELSE [exc |-> NoExc, self |-> r0]
    IN  IF r1.exc # NoExc THEN r1
        ELSE IF Truthy(birthday) THEN add_birthday(r1.self, birthday)
        ELSE r1

\* Record.__str__: the phones joined by "; ", or the whole line, given by
\* its three variable parts (birthday "" when there is none).
describe(self, only_phones) ==
    LET phones_str ==
            join(<<";", " ">>,
                 [i \in 1..Len(self.phones) |-> self.phones[i].value])
    IN  IF only_phones THEN phones_str
        ELSE [name |-> self.name.value,
              phones |-> phones_str,
              birthday |-> IF self.birthday # None /\ self.birthday.value # <<>>
                           THEN self.birthday.value ELSE <<>>]

\* --------------------------------------------------------- AddressBook
\* self.contacts is a function from the names in it to their records.

\* The assignment as it would be if it made a new dict of the one entry.
Put_resetting(book, key, record) == [k \in {key} |-> record]

Put(book, key, record) ==
    [k \in DOMAIN book \cup {key} |-> IF k = key THEN record ELSE book[k]]


\* add_contact as it would be without the test for the name.
add_contact_overwriting(book, record) ==
    [exc |-> NoExc, book |-> Put(book, record.name.value, record),
     ret |-> "Contact added."]

add_contact(book, record) ==
    IF record.name.value \notin DOMAIN book
    THEN [exc |-> NoExc, book |-> Put(book, record.name.value, record),
          ret |-> "Contact added."]
    ELSE [exc |-> Exc("ContactAlreadyExists", ""), book |-> book, ret |-> ""]


\* change_contact as it would be if it kept the birthday of the old record
\* when the new one has none.
change_contact_merging(book, record) ==
    IF record.name.value \in DOMAIN book
    THEN [exc |-> NoExc,
          book |-> Put(book, record.name.value,
                       IF record.birthday = None
                       THEN [record EXCEPT
                                !.birthday = book[record.name.value].birthday]
                       ELSE record),
          ret |-> "Contact updated."]
    ELSE [exc |-> Exc("ContactDoesNotExist", ""), book |-> book, ret |-> ""]

\* change_contact as it would be if it inserted a name it does not find.
change_contact_upserting(book, record) ==
    [exc |-> NoExc, book |-> Put(book, record.name.value, record),
     ret |-> "Contact updated."]

change_contact(book, record) ==
    IF record.name.value \in DOMAIN book
    THEN [exc |-> NoExc, book |-> Put(book, record.name.value, record),
          ret |-> "Contact updated."]
    ELSE [exc |-> Exc("ContactDoesNotExist", ""), book |-> book, ret |-> ""]

show_phone(book, name) ==
    IF name \in DOMAIN book
    THEN [exc |-> NoExc, ret |-> describe(book[name], TRUE)]
    ELSE [exc |-> Exc("ContactDoesNotExist", ""), ret |-> <<>>]

show_birthday_unset_as_absent(book, name) ==
    IF name \in DOMAIN book /\ book[name].birthday # None
    THEN [exc |-> NoExc, ret |-> book[name].birthday.value]
    ELSE [exc |-> Exc("ContactDoesNotExist", ""), ret |-> <<>>]

show_birthday(book, name) ==
    IF name \in DOMAIN book
    THEN IF book[name].birthday # None
         THEN [exc |-> NoExc, ret |-> book[name].birthday.value]
         ELSE [exc |-> Exc("NoBirthdaySet", "No birthday set for this contact."),
               ret |-> <<>>]
    ELSE [exc |-> Exc("ContactDoesNotExist", ""), ret |-> <<>>]

show_all(book) == {describe(book[k], FALSE) : k \in DOMAIN book}

\* One pass of the loop of get_birthdays_per_week over a record that has a
\* birthday: the exception of replace(), or whether the record qualifies
\* and the key it is appended under.
BirthdayEntry(record, today) ==
    LET birthday_date == strptime(record.birthday.value).val
        this_year == replace_year(birthday_date, today.year)
        user_delta == days_between(this_year.val, today)
        shifted ==
            IF get_day_of_week_from_date(birthday_date) = "Saturday"
            THEN user_delta + 2
            ELSE IF get_day_of_week_from_date(birthday_date) = "Sunday"
            THEN user_delta + 1
            ELSE user_delta
    IN  IF this_year.exc # NoExc
        THEN [exc |-> this_year.exc, listed |-> FALSE, key |-> ""]
        ELSE IF 7 > user_delta /\ user_delta >= 0
        THEN [exc |-> NoExc, listed |-> TRUE,
              key |-> get_day_of_week_from_date(plus_days(today, shifted))]
        ELSE [exc |-> NoExc, listed |-> FALSE, key |-> ""]

\* get_birthdays_per_week with datetime.now() = today: the exception that
\* ends the loop, or the mapping from the day names to the names under
\* them.
get_birthdays_per_week(book, today) ==
    LET with == {k \in DOMAIN book : book[k].birthday # None}
        entry == [k \in with |-> BirthdayEntry(book[k], today)]
        keys == {entry[k].key : k \in {n \in with : entry[n].listed}}
    IN  IF \E k \in with : entry[k].exc # NoExc
        THEN [exc |-> (CHOOSE e \in {entry[k].exc : k \in with} : e # NoExc),
              ret |-> <<>>]
        ELSE [exc |-> NoExc,
              ret |-> [d \in keys |->
                          {k \in with : entry[k].listed /\ entry[k].key = d}]]

\* parse_input(user_input): the command, stripped and in lower case, and
\* the arguments.
parse_input(user_input) ==
    LET parts == split(user_input)
    IN  IF parts = <<>>
        THEN [exc |-> Exc("InvalidParameterCount", ""), cmd |-> <<>>,
              args |-> <<>>]
        ELSE [exc |-> NoExc, cmd |-> lower(strip(Head(parts))),
              args |-> Tail(parts)]

\* ------------------------------------------------------------- inputs

NumNames == 2

MaxPhones == 3

John == <<"J", "o", "h", "n">>

Ann == <<"A", "n", "n">>

Bob == <<"B", "o", "b">>

NameList == <<John, Ann, Bob>>

Names == {NameList[i] : i \in 1..NumNames}

Phone1 == <<"1", "2", "3", "4", "5", "6", "7", "8", "9", "0">>

Phone2 == <<"0", "9", "8", "7", "6", "5", "4", "3", "2", "1">>

PhoneSuper == [i \in 1..10 |-> "SUP2"]

PhoneShort == <<"1", "2", "3", "4", "5">>

PhoneAlpha == <<"1", "2", "3", "4", "5", "a", "b", "c", "d", "e">>

\* 29.02.2020, a Saturday; 29 February 2048 is a Saturday too
BdayLeap == <<"2", "9", ".", "0", "2", ".", "2", "0", "2", "0">>

\* 01.01.2030, a Tuesday; 1 January 2022 is a Saturday
BdayNewYear == <<"0", "1", ".", "0", "1", ".", "2", "0", "3", "0">>

\* 1.1.2020, not zero-padded
BdayUnpadded == <<"1", ".", "1", ".", "2", "0", "2", "0">>

\* 31.02.2020, no date
BdayNoDate == <<"3", "1", ".", "0", "2", ".", "2", "0", "2", "0">>

\* 2020-01-01, another format
BdayIso == <<"2", "0", "2", "0", "-", "0", "1", "-", "0", "1">>

GoodPhones == {Phone1, Phone2}

BadPhones == {PhoneShort, PhoneAlpha}

GoodBirthdays == {BdayLeap, BdayNewYear}

BadBirthdays == {BdayNoDate, BdayIso}

kw_close == <<"c", "l", "o", "s", "e">>

kw_exit == <<"e", "x", "i", "t">>

kw_hello == <<"h", "e", "l", "l", "o">>

kw_add == <<"a", "d", "d">>

kw_change == <<"c", "h", "a", "n", "g", "e">>

kw_phone == <<"p", "h", "o", "n", "e">>

kw_all == <<"a", "l", "l">>

kw_add_birthday ==
    <<"a", "d", "d", "-", "b", "i", "r", "t", "h", "d", "a", "y">>

kw_show_birthday ==
    <<"s", "h", "o", "w", "-", "b", "i", "r", "t", "h", "d", "a", "y">>

kw_birthdays == <<"b", "i", "r", "t", "h", "d", "a", "y", "s">>

\* The line of these tokens, one space between them.
Line(tokens) == join(<<" ">>, tokens)

\* The lines the user types: every name with every good phone and
\* birthday, and for John the bad ones, a superscript phone, an unpadded
\* birthday, tokens too few and too many, upper case, more whitespace, none.
Lines ==
    {Line(<<kw, n, p>>) : kw \in {kw_add, kw_change}, n \in Names, p \in GoodPhones}
    \cup {Line(<<kw, n, p, b>>) :
        kw \in {kw_add, kw_change}, n \in Names, p \in GoodPhones,
        b \in GoodBirthdays}
    \cup {Line(<<kw_add_birthday, n, b>>) : n \in Names, b \in GoodBirthdays}
    \cup {Line(<<kw, n>>) : kw \in {kw_phone, kw_show_birthday}, n \in Names}
    \cup {Line(<<kw>>) :
        kw \in {kw_close, kw_exit, kw_hello, kw_add, kw_change, kw_phone,
                kw_all, kw_add_birthday, kw_show_birthday, kw_birthdays}}
    \cup {Line(<<kw, John>>) : kw \in {kw_add, kw_change, kw_add_birthday}}
    \cup {Line(<<kw, John, p>>) : kw \in {kw_add, kw_change}, p \in BadPhones}
    \cup {Line(<<kw, John, Phone1, b>>) :
        kw \in {kw_add, kw_change}, b \in BadBirthdays}
    \cup {Line(<<kw_add_birthday, John, b>>) : b \in BadBirthdays}
    \cup {Line(<<kw_add, John, PhoneSuper>>),
          Line(<<kw_add, John, Phone1, BdayUnpadded>>),
          Line(<<kw_add_birthday, John, BdayUnpadded>>),
          Line(<<kw_add, John, PhoneShort, BdayLeap>>),
          Line(<<kw_change, John, PhoneShort, BdayLeap>>),
          Line(<<kw_add, John, Phone1, BdayLeap, Ann>>),
          Line(<<kw_add_birthday, John, BdayLeap, Ann>>),
          Line(<<kw_phone, John, Ann>>),
          Line(<<<<"H", "e", "l", "l", "o">>>>),
          Line(<<<<"E", "X", "I", "T">>>>),
          Line(<<<<"f", "o", "o">>, John>>),
          <<" ", "TAB">> \o Line(<<kw_phone, <<>>, John>>) \o <<" ">>,
          <<" ", "TAB", " ">>,
          <<>>}

\* What datetime.now() may return: Wednesday 26 February 2048, Thursday 22
\* and Thursday 29 February 2024, Friday 1 March 2024, Saturday 1 January
\* 2022, Monday 1 January 2024 and Saturday 30 December 2023, each at
\* midnight and at 10:00.
Todays ==
    {[year |-> d[1], month |-> d[2], day |-> d[3], second |-> s] :
        d \in {<<2048, 2, 26>>, <<2024, 2, 22>>, <<2024, 2, 29>>, <<2024, 3, 1>>,
               <<2022, 1, 1>>, <<2024, 1, 1>>, <<2023, 12, 30>>},
        s \in {0, 36000}}

\* ------------------------------------------------------------ main()

Msg(s) == [kind |-> "message", text |-> s]

Text(t) == [kind |-> "text", text |-> t]

Nothing == [kind |-> "nothing"]

Outcome(book, e, o, st) ==
    [contacts |-> book, exc |-> e, out |-> o, status |-> st]

\* try: ... except catches as e: print(str(e)); an exception of another
\* class leaves main().
Except(book, e, catches) ==
    IF e.type \in catches THEN Outcome(book, e, Msg(e.msg), "running")
    ELSE Outcome(book, e, Nothing, "crashed")

\* name, phone, *birthday = args; record = Record(...)
BuildRecord(args) ==
    IF Len(args) < 2
    THEN [exc |-> Exc("ValueError",
                      IF Len(args) = 0
                      THEN "not enough values to unpack (expected at least 2, got 0)"
                      ELSE "not enough values to unpack (expected at least 2, got 1)"),
          self |-> None]
    ELSE IF Len(args) > 2 THEN Record(args[1], args[2], args[3])
    ELSE Record(args[1], args[2], None)

\* elif command == "add"
AddBranch(book, args) ==
    LET catches == {"InvalidParameterCount", "ContactAlreadyExists", "ValueError"}
        built == BuildRecord(args)
        added == add_contact(book, built.self)
    IN  IF built.exc # NoExc THEN Except(book, built.exc, catches)
        ELSE IF added.exc # NoExc THEN Except(book, added.exc, catches)
        ELSE Outcome(added.book, NoExc, Msg(added.ret), "running")

\* elif command == "change"
ChangeBranch(book, args) ==
    LET catches == {"InvalidParameterCount", "ContactDoesNotExist", "ValueError"}
        built == BuildRecord(args)
        changed == change_contact(book, built.self)
    IN  IF built.exc # NoExc THEN Except(book, built.exc, catches)
        ELSE IF changed.exc # NoExc THEN Except(book, changed.exc, catches)
        ELSE Outcome(changed.book, NoExc, Msg(changed.ret), "running")

\* elif command == "phone"
PhoneBranch(book, args) ==
    LET catches == {"InvalidParameterCount", "ContactDoesNotExist"}
        shown == show_phone(book, args[1])
    IN  IF Len(args) = 0
        THEN Except(book, Exc("IndexError", "list index out of range"), catches)
        ELSE IF shown.exc # NoExc THEN Except(book, shown.exc, catches)
        ELSE Outcome(book, NoExc, Text(shown.ret), "running")

\* elif command == "add-birthday"
AddBirthdayBranch(book, args) ==
    LET catches == {"InvalidParameterCount", "ContactDoesNotExist", "ValueError"}
        name == args[1]
        set == add_birthday(book[name], args[2])
        \* the method works on the stored record itself: what it did to it
        \* stays, also when it raises
        stored == [book EXCEPT ![name] = set.self]
    IN  IF Len(args) < 2
        THEN Except(book,
                    Exc("ValueError",
                        IF Len(args) = 0
                        THEN "not enough values to unpack (expected 2, got 0)"
                        ELSE "not enough values to unpack (expected 2, got 1)"),
                    catches)
        ELSE IF Len(args) > 2
        THEN Except(book,
                    Exc("ValueError", "too many values to unpack (expected 2)"),
                    catches)
        ELSE IF name \notin DOMAIN book
        THEN Except(book, Exc("ContactDoesNotExist", ""), catches)
        ELSE IF set.exc # NoExc THEN Except(stored, set.exc, catches)
        ELSE Outcome(stored, NoExc,
                     [kind |-> "birthday added", name |-> name], "running")

\* elif command == "show-birthday"
ShowBirthdayBranch(book, args) ==
    LET catches == {"InvalidParameterCount", "ContactDoesNotExist", "NoBirthdaySet"}
        shown == show_birthday(book, args[1])
    IN  IF Len(args) = 0
        THEN Except(book, Exc("IndexError", "list index out of range"), catches)
        ELSE IF shown.exc # NoExc THEN Except(book, shown.exc, catches)
        ELSE Outcome(book, NoExc, Text(shown.ret), "running")

\* elif command == "birthdays": nothing catches what the report raises.
BirthdaysBranch(book, today) ==
    LET upcoming == get_birthdays_per_week(book, today)
    IN  IF upcoming.exc # NoExc THEN Except(book, upcoming.exc, {})
        ELSE IF upcoming.ret # <<>>
        THEN Outcome(book, NoExc, [kind |-> "report", report |-> upcoming.ret],
                     "running")
        ELSE Outcome(book, NoExc,
                     Msg("No upcoming birthdays in the next week."), "running")

RecUnchanged == UNCHANGED <<rec, recOp, recExc>>

\* The variables after a pass of the loop that took branch b to outcome r.
Finish(b, r, n) ==
    /\ contacts' = r.contacts
    /\ status' = r.status
    /\ branch' = b
    /\ exc' = r.exc
    /\ out' = r.out
    /\ now' = n
    /\ RecUnchanged

\* What parse_input makes of the lines the user types.
Inputs == {parse_input(line) : line \in Lines}

\* input() returned a line that parse_input made p, a command among cmds.
Reads(p, cmds) ==
    /\ status = "running"
    /\ p.exc = NoExc
    /\ p.cmd \in cmds

\* parse_input raises outside every try.
NoCommand ==
    \E p \in Inputs :
        /\ status = "running"
        /\ p.exc # NoExc
        /\ Finish("parse_input", Except(contacts, p.exc, {}), None)

\* input() raises EOFError at the end of the input.
EndOfInput ==
    /\ status = "running"
    /\ Finish("input", Except(contacts, Exc("EOFError", ""), {}), None)

Close ==
    \E p \in Inputs :
        /\ Reads(p, {kw_close, kw_exit})
        /\ Finish("close", Outcome(contacts, NoExc, Msg("Goodbye!"), "exited"), None)

Hello ==
    \E p \in Inputs :
        /\ Reads(p, {kw_hello})
        /\ Finish("hello",
                  Outcome(contacts, NoExc, Msg("How can I help you?"), "running"),
                  None)

Add ==
    \E p \in Inputs :
        /\ Reads(p, {kw_add})
        /\ Finish("add", AddBranch(contacts, p.args), None)

Change ==
    \E p \in Inputs :
        /\ Reads(p, {kw_change})
        /\ Finish("change", ChangeBranch(contacts, p.args), None)

ShowPhone ==
    \E p \in Inputs :
        /\ Reads(p, {kw_phone})
        /\ Finish("phone", PhoneBranch(contacts, p.args), None)

All ==
    \E p \in Inputs :
        /\ Reads(p, {kw_all})
        /\ Finish("all",
                  Outcome(contacts, NoExc,
                          [kind |-> "records", records |-> show_all(contacts)],
                          "running"),
                  None)

AddBirthday ==
    \E p \in Inputs :
        /\ Reads(p, {kw_add_birthday})
        /\ Finish("add-birthday",
                  AddBirthdayBranch(contacts, p.args), None)

ShowBirthday ==
    \E p \in Inputs :
        /\ Reads(p, {kw_show_birthday})
        /\ Finish("show-birthday",
                  ShowBirthdayBranch(contacts, p.args), None)

Birthdays ==
    \E p \in Inputs, today \in Todays :
        /\ Reads(p, {kw_birthdays})
        /\ Finish("birthdays", BirthdaysBranch(contacts, today), today)

Commands ==
    {kw_close, kw_exit, kw_hello, kw_add, kw_change, kw_phone, kw_all,
     kw_add_birthday, kw_show_birthday, kw_birthdays}

Invalid ==
    \E p \in Inputs :
        /\ status = "running"
        /\ p.exc = NoExc
        /\ p.cmd \notin Commands
        /\ Finish("else", Outcome(contacts, NoExc, Msg("Invalid command."), "running"),
                  None)

Init ==
    /\ contacts = <<>>
    /\ status = "running"
    /\ branch = "start"
    /\ exc = NoExc
    /\ out = Msg("Welcome to the assistant bot!")
    /\ now = None
    /\ rec = Record(John, None, None).self
    /\ recOp = None
    /\ recExc = NoExc

Next ==
    \/ NoCommand
    \/ EndOfInput
    \/ Close
    \/ Hello
    \/ Add
    \/ Change
    \/ ShowPhone
    \/ All
    \/ AddBirthday
    \/ ShowBirthday
    \/ Birthdays
    \/ Invalid

Spec == Init /\ [][Next]_vars

\* ----------------------------------------- a Record through its methods

MainUnchanged == UNCHANGED <<contacts, status, branch, exc, out, now>>

PhoneArgs == GoodPhones \cup BadPhones \cup {PhoneSuper}

BirthdayArgs == GoodBirthdays \cup BadBirthdays \cup {BdayUnpadded}

RecAddPhone ==
    \E phone \in PhoneArgs :
        /\ Len(rec.phones) < MaxPhones
        /\ rec' = add_phone(rec, phone).self
        /\ recExc' = add_phone(rec, phone).exc
        /\ recOp' = [op |-> "add_phone", arg |-> phone]
        /\ MainUnchanged

RecRemovePhone ==
    \E phone \in PhoneArgs :
        /\ rec' = remove_phone(rec, phone).self
        /\ recExc' = remove_phone(rec, phone).exc
        /\ recOp' = [op |-> "remove_phone", arg |-> phone]
        /\ MainUnchanged

RecAddBirthday ==
    \E birthday \in BirthdayArgs :
        /\ rec' = add_birthday(rec, birthday).self
        /\ recExc' = add_birthday(rec, birthday).exc
        /\ recOp' = [op |-> "add_birthday", arg |-> birthday]
        /\ MainUnchanged

NameArgs == {John, <<>>}

\* rec = Record(name, phone, birthday); when the constructor raises there
\* is no new record and rec is the one it was.
RecNew ==
    \E name \in NameArgs, phone \in {None, Phone1, PhoneShort},
       birthday \in {None, BdayLeap, BdayNoDate} :
        /\ rec' = IF Record(name, phone, birthday).exc = NoExc
                  THEN Record(name, phone, birthday).self
                  ELSE rec
        /\ recExc' = Record(name, phone, birthday).exc
        /\ recOp' = [op |-> "Record", arg |-> name]
        /\ MainUnchanged

RecNext == RecNew \/ RecAddPhone \/ RecRemovePhone \/ RecAddBirthday

SpecRecord == Init /\ [][RecNext]_vars

\* ------------------------------------------------------------ claims

WorkDays == {"Monday", "Tuesday", "Wednesday", "Thursday", "Friday"}

\* The last command was `birthdays` and the report was returned.
Reported == branch = "birthdays" /\ exc = NoExc

\* The name is in some bucket of the report printed.
Listed(n) ==
    /\ out.kind = "report"
    /\ \E d \in DOMAIN out.report : n \in out.report[d]

HasBirthday(book, n) == n \in DOMAIN book /\ book[n].birthday # None

\* The birthday of n, its month and day in the year of now.
ThisYear(n) ==
    [strptime(contacts[n].birthday.value).val EXCEPT !.year = now.year]

\* The calendar days from the date of now to that day.
CalendarDelta(n) == toordinal(ThisYear(n)) - toordinal(now)

WeekendShift(d) ==
    IF DayNames[weekday(d) + 1] = "Saturday" THEN 2
    ELSE IF DayNames[weekday(d) + 1] = "Sunday" THEN 1
    ELSE 0

\* C1: the report of upcoming_birthdays never groups a contact under
\* Saturday or Sunday: every key of the mapping is one of Monday..Friday.
C1_NoWeekendKey == out.kind = "report" => DOMAIN out.report \subseteq WorkDays

\* C2: a contact in the report is under the weekday name of today + delta +
\* shift, where delta is the days from today to the birthday's month/day in
\* the current year and the shift is 2 if that day of the current year is a
\* Saturday, 1 if it is a Sunday, 0 otherwise.
C2_ShiftFromCurrentYear ==
    Reported =>
        \A n \in DOMAIN contacts :
            Listed(n) =>
                /\ CalendarDelta(n) >= 0
                /\ \E d \in DOMAIN out.report :
                      /\ n \in out.report[d]
                      /\ d = DayNames[weekday(plus_days(now,
                                 CalendarDelta(n) + WeekendShift(ThisYear(n)))) + 1]

\* C3: a record with a birthday is in the report if and only if the
\* calendar days from today to the birthday's month/day in today's year are
\* at least 0 and less than 7, whatever the time of day.
C3_ListedIffInWindow ==
    Reported =>
        \A n \in DOMAIN contacts :
            HasBirthday(contacts, n) =>
                (Listed(n) <=> (0 <= CalendarDelta(n) /\ CalendarDelta(n) < 7))

\* A phone as the specification has it: ten ASCII digits.
WellFormedPhone(t) == Len(t) = 10 /\ \A i \in 1..Len(t) : t[i] \in AsciiDigit

PhoneValues(r) == [i \in 1..Len(r.phones) |-> r.phones[i].value]

\* The texts without the first one equal to t.
RECURSIVE WithoutFirst(_, _)
WithoutFirst(texts, t) ==
    IF texts = <<>> THEN <<>>
    ELSE IF Head(texts) = t THEN Tail(texts)
    ELSE <<Head(texts)>> \o WithoutFirst(Tail(texts), t)

\* C4: remove_phone with a well-formed phone that equals a stored one
\* removes the first stored phone of that value and keeps the others in
\* their order; it fails only when no stored phone has that value.
C4_RemovePhoneRemovesFirst ==
    [][(/\ recOp'.op = "remove_phone"
        /\ WellFormedPhone(recOp'.arg)
        /\ \E i \in 1..Len(rec.phones) : rec.phones[i].value = recOp'.arg)
       => (/\ recExc' = NoExc
           /\ PhoneValues(rec') = WithoutFirst(PhoneValues(rec), recOp'.arg))]_vars

\* C5: every error raised while handling an input line is caught in the
\* loop: the process ends only by close or exit (or at the end of the
\* input, where no line was read).
C5_NoLineEndsTheProcess ==
    /\ status = "crashed" => exc.type = "EOFError"
    /\ status = "exited" => branch = "close"

\* C6: once the contact under a name holds a birthday, no command replaces
\* or removes it: after every step the directory holds the same birthday
\* under that name.
C6_BirthdayNeverReplaced ==
    [][\A n \in DOMAIN contacts :
          contacts[n].birthday # None =>
              /\ n \in DOMAIN contacts'
              /\ contacts'[n].birthday = contacts[n].birthday]_vars

\* C6, amended: the birthday held under a name is replaced or removed by no
\* step but a successful change of that name, which leaves every other
\* record as it is.
C6_BirthdayKeptButByChange ==
    [][\A n \in DOMAIN contacts :
          contacts[n].birthday # None =>
              /\ n \in DOMAIN contacts'
              /\ \/ contacts'[n].birthday = contacts[n].birthday
                 \/ /\ branch' = "change"
                    /\ exc' = NoExc
                    /\ \A m \in DOMAIN contacts \ {n} :
                          m \in DOMAIN contacts' /\ contacts'[m] = contacts[m]]_vars

\* An add-birthday naming a contact that has a birthday was refused.
C6_Witness ==
    /\ branch = "add-birthday"
    /\ exc = Exc("ValueError", "Contact can have only one birthday.")
    /\ \E n \in DOMAIN contacts : contacts[n].birthday # None

\* The records the lines of a command supply: those whose arguments
\* Record() accepts, each with its arguments.
Supplied(cmd) ==
    {[args |-> p.args, record |-> BuildRecord(p.args).self] :
        p \in {q \in Inputs :
                  q.exc = NoExc /\ q.cmd = cmd /\ BuildRecord(q.args).exc = NoExc}}

SuppliedToAdd == Supplied(kw_add)

SuppliedToChange == Supplied(kw_change)

\* C7: in every state, change_contact with a record that names a present
\* contact succeeds, leaves under that name exactly the supplied record
\* (its phones and its birthday, none if it has none) and leaves every
\* other record as it is.
C7_ChangeOverwrites ==
    \A s \in SuppliedToChange :
        LET name == s.record.name.value
            after == change_contact(contacts, s.record)
        IN  name \in DOMAIN contacts =>
                /\ after.exc = NoExc
                /\ DOMAIN after.book = DOMAIN contacts
                /\ after.book[name] = s.record
                /\ \A m \in DOMAIN contacts \ {name} : after.book[m] = contacts[m]

\* A change has left John without a birthday, beside another record that
\* has one.
C7_Witness ==
    /\ branch = "change"
    /\ exc = NoExc
    /\ John \in DOMAIN contacts
    /\ contacts[John].birthday = None
    /\ PhoneValues(contacts[John]) = <<Phone2>>
    /\ \E m \in DOMAIN contacts \ {John} : contacts[m].birthday # None

\* C8: in every state, an add whose record names a present contact fails
\* with ContactAlreadyExists, the loop goes on and the directory is as it
\* was, so `phone` of that name prints what it printed before.
C8_AddOfPresentNameFails ==
    \A s \in SuppliedToAdd :
        LET name == s.record.name.value
            after == AddBranch(contacts, s.args)
        IN  name \in DOMAIN contacts =>
                /\ after.exc.type = "ContactAlreadyExists"
                /\ after.status = "running"
                /\ after.contacts = contacts
                /\ PhoneBranch(after.contacts, <<name>>).out
                       = Text(join(<<";", " ">>, PhoneValues(contacts[name])))

\* An add of John was refused and John still has the phone 1234567890.
C8_Witness ==
    /\ branch = "add"
    /\ exc.type = "ContactAlreadyExists"
    /\ John \in DOMAIN contacts
    /\ PhoneValues(contacts[John]) = <<Phone1>>

\* C9: in every state, change_contact with a record that names no contact
\* of the directory fails with ContactDoesNotExist and leaves the directory
\* as it is.
C9_ChangeOfAbsentNameFails ==
    \A s \in SuppliedToChange :
        LET after == change_contact(contacts, s.record)
        IN  s.record.name.value \notin DOMAIN contacts =>
                /\ after.exc.type = "ContactDoesNotExist"
                /\ after.book = contacts

\* A change was refused for its name while the directory holds a record.
C9_Witness ==
    /\ branch = "change"
    /\ exc.type = "ContactDoesNotExist"
    /\ contacts # <<>>
    /\ DOMAIN contacts # Names

\* A birthday text as the specification has it: DD.MM.YYYY in ASCII digits,
\* naming a date.
WellFormedBirthday(t) ==
    /\ Len(t) = 10
    /\ t[3] = "." /\ t[6] = "."
    /\ \A i \in {1, 2, 4, 5, 7, 8, 9, 10} : t[i] \in AsciiDigit
    /\ ValidDate(int(SubSeq(t, 7, 10)), int(SubSeq(t, 4, 5)), int(SubSeq(t, 1, 2)))

\* C10: add_birthday on a record that has a birthday fails with "Contact
\* can have only one birthday." and leaves the record as it is, whether or
\* not the text is well-formed; on a record without one, a well-formed text
\* is set.
C10_SecondBirthdayRefused ==
    [][recOp'.op = "add_birthday" =>
          IF rec.birthday # None
          THEN /\ recExc' = Exc("ValueError", "Contact can have only one birthday.")
               /\ rec' = rec
          ELSE WellFormedBirthday(recOp'.arg) =>
                  /\ recExc' = NoExc
                  /\ rec'.birthday = [value |-> recOp'.arg]
                  /\ rec'.phones = rec.phones]_vars

\* add_birthday was refused for a text that is no date, on a record that
\* has a birthday.
C10_Witness ==
    /\ recOp # None
    /\ recOp.op = "add_birthday"
    /\ ~WellFormedBirthday(recOp.arg)
    /\ recExc = Exc("ValueError", "Contact can have only one birthday.")
    /\ rec.birthday # None

\* C11: a command that ends by raising an error (a malformed phone or
\* birthday, arguments too few or too many, a name that is present or is
\* absent, a second birthday) leaves the directory as it was: the same
\* names, and under each the same phones and birthday.
C11_ErrorsLeaveDirectory == [][exc' # NoExc => contacts' = contacts]_vars

\* An add-birthday with a text that is no date was refused for a contact
\* that has no birthday.
C11_Witness ==
    /\ branch = "add-birthday"
    /\ exc = Exc("ValueError",
                 "Invalid date format for birthday. Please use DD.MM.YYYY.")
    /\ John \in DOMAIN contacts
    /\ contacts[John].birthday = None

\* C12: the directory holds every record under the key that is the
\* record's own name (one record per name: a dict has one value per key),
\* and a name once in the directory stays in it.
C12_KeysAreNamesAndStay ==
    /\ [](\A k \in DOMAIN contacts : contacts[k].name.value = k)
    /\ [][DOMAIN contacts \subseteq DOMAIN contacts']_vars

\* Two names are in the directory after a change and an earlier add.
C12_Witness ==
    /\ branch = "change"
    /\ exc = NoExc
    /\ Cardinality(DOMAIN contacts) >= 2

\* C13: Phone(raw) succeeds if and only if raw is ten ASCII digits; every
\* other text, one of ten superscript digits among them, is refused.
C13_PhoneIffTenAsciiDigits ==
    [][recOp'.op = "add_phone" =>
          (recExc' = NoExc <=> WellFormedPhone(recOp'.arg))]_vars

\* C14: Birthday(raw) succeeds if and only if raw is DD.MM.YYYY, zero-padded,
\* and names a date; 1.1.2020 is refused.
C14_BirthdayIffPaddedDate ==
    [][(recOp'.op = "add_birthday" /\ rec.birthday = None) =>
          (recExc' = NoExc <=> WellFormedBirthday(recOp'.arg))]_vars

SuppliedToAddBirthday ==
    {p.args : p \in {q \in Inputs :
                        q.exc = NoExc /\ q.cmd = kw_add_birthday /\ Len(q.args) = 2}}

\* C15: in every state, show-birthday of a name prints the stored birthday
\* text when the contact has one, fails with NoBirthdaySet exactly when the
\* contact is there without a birthday and with ContactDoesNotExist exactly
\* when it is not there; and the text it prints after a birthday was set, by
\* add-birthday or by add, is the text that was entered.
C15_ShowBirthdayAsEntered ==
    /\ \A n \in Names :
          LET shown == ShowBirthdayBranch(contacts, <<n>>)
              there == n \in DOMAIN contacts
          IN  /\ shown.status = "running"
              /\ shown.contacts = contacts
              /\ (there /\ contacts[n].birthday # None) <=> shown.exc = NoExc
              /\ shown.exc = NoExc => shown.out = Text(contacts[n].birthday.value)
              /\ (there /\ contacts[n].birthday = None)
                     <=> shown.exc.type = "NoBirthdaySet"
              /\ ~there <=> shown.exc.type = "ContactDoesNotExist"
    /\ \A a \in SuppliedToAddBirthday :
          LET set == AddBirthdayBranch(contacts, a)
          IN  set.exc = NoExc =>
                  ShowBirthdayBranch(set.contacts, <<a[1]>>).out = Text(a[2])
    /\ \A s \in SuppliedToAdd :
          LET added == add_contact(contacts, s.record)
          IN  (added.exc = NoExc /\ Len(s.args) = 3) =>
                  ShowBirthdayBranch(added.book, <<s.args[1]>>).out = Text(s.args[3])

\* John was added with a phone, given the birthday 01.01.2030, and
\* show-birthday has printed it.
C15_Witness ==
    /\ branch = "show-birthday"
    /\ exc = NoExc
    /\ out = Text(BdayNewYear)
    /\ John \in DOMAIN contacts
    /\ contacts[John].birthday = [value |-> BdayNewYear]
    /\ PhoneValues(contacts[John]) = <<Phone1>>

\* C16: whenever the loop has caught an error, what it printed is a message
\* that is not empty; and what an add of a present name prints differs from
\* what a change of an absent name prints.
C16_CaughtErrorPrintsMessage ==
    /\ (exc # NoExc /\ status = "running") => (out.kind = "message" /\ out.text # "")
    /\ \A a \in SuppliedToAdd, c \in SuppliedToChange :
          LET present == AddBranch(contacts, a.args)
              absent == ChangeBranch(contacts, c.args)
          IN  (present.exc.type = "ContactAlreadyExists"
                   /\ absent.exc.type = "ContactDoesNotExist")
                  => present.out # absent.out

\* C17: constructing a Record with the empty name fails with a format error,
\* and no record has the empty name.
C17_NoEmptyName ==
    /\ (recOp # None /\ recOp.op = "Record" /\ recOp.arg = <<>>)
           => recExc.type = "ValueError"
    /\ rec.name.value # <<>>
    /\ \A n \in DOMAIN contacts : contacts[n].name.value # <<>>

\* C18: the birthdays command raises nothing, whatever the stored birthdays
\* and the current date are, and the loop goes on.
C18_BirthdaysNeverRaises ==
    branch = "birthdays" => (exc = NoExc /\ status = "running")

\* C19: every stored record holds exactly one phone, and that phone is ten
\* ASCII digits.
C19_OneWellFormedPhone ==
    \A n \in DOMAIN contacts :
        /\ Len(contacts[n].phones) = 1
        /\ WellFormedPhone(contacts[n].phones[1].value)

====
